---- MODULE Spec2Model ----
(***************************************************************************)
(* State-machine model of src/src/App.jsx: the root component App, its     *)
(* hooks (useScrollSpy, the accent effect, the memoised project filter),   *)
(* the Toast and Modal components and the browser facilities they use      *)
(* (localStorage, setTimeout, keydown listeners, IntersectionObserver,     *)
(* the clipboard).  One action per event handler; every action includes    *)
(* the React re-render and the effects the handler's state change causes.  *)
(***************************************************************************)
EXTENDS Integers, Sequences, FiniteSets, TLC

\* null / undefined / a key that is absent from storage
NoValue == "<null>"

\* JavaScript truthiness of a (string | null | undefined) value
Truthy(v) == v # NoValue /\ v # ""

----------------------------------------------------------------------------
\* Static data

ACCENTS ==
  << [name |-> "Neon",   value |-> "#7C3AED"],
     [name |-> "Ocean",  value |-> "#06B6D4"],
     [name |-> "Lime",   value |-> "#84CC16"],
     [name |-> "Sunset", value |-> "#FB7185"],
     [name |-> "Gold",   value |-> "#F59E0B"],
     [name |-> "Blue",   value |-> "#3B82F6"] >>

PaletteValues == { ACCENTS[i].value : i \in DOMAIN ACCENTS }

PROJECTS ==
  << [title |-> "Pc Pricer",
      tags  |-> <<"HTML", "CSS", "JS">>,
      links |-> [artstation |-> NoValue,
                 code |-> "https://github.com/IvanSh-dev/pc-pricer",
                 live |-> "https://pc-pricer.vercel.app/"]],
     [title |-> "Kinematic Analysis",
      tags  |-> <<"Python", "Tkinter">>,
      links |-> [artstation |-> NoValue,
                 code |-> "https://github.com/IvanSh-dev/kinematic-analysis-python",
                 live |-> NoValue]],
     [title |-> "3D Design projects",
      tags  |-> <<"Blender", "Cycles", "Animation">>,
      links |-> [artstation |-> "https://www.artstation.com/ivsh",
                 code |-> NoValue,
                 live |-> NoValue]] >>

\* const sections = [...] in App
sections == <<"home", "about", "skills", "projects", "experience", "contact">>

SectionIds == { sections[i] : i \in DOMAIN sections }

\* setTimeout(onClose, 1800)
DISMISS_MS == 1800

\* threshold: [0.15, 0.3, 0.5], in percent
Thresholds == <<15, 30, 50>>

\* the call site copy(PROFILE.email, "Email")
CopyLabels == {"Email"}

\* keys a keydown event may carry
Keys == {"Escape", "Enter"}

----------------------------------------------------------------------------
\* Bounds of the model

\* clipboard writes in flight at once
MaxPending == 1

\* clock ticks per dismissal period
TicksPerPeriod == 2

\* sections that overlap the observation band at once
MaxVisible == 2

\* length of a generated project list
MaxProjects == 2

Step == DISMISS_MS \div TicksPerPeriod

\* elapsed time since the last show call saturates above one period
ElapsedCap == DISMISS_MS + Step

Min(a, b) == IF a <= b THEN a ELSE b

----------------------------------------------------------------------------
VARIABLES
  app,              \* "unmounted" | "mounted" | "crashed" (uncaught error unmounted the tree)
  storageMode,      \* "ok" | "getThrows" | "setThrows": behaviour of window.localStorage
  localStorage,     \* key -> stored string, NoValue when the key is absent
  projects,         \* the project list the page is built from
  accent,           \* useState: accent
  styleAccent,      \* the --accent style property of the document element
  filter,           \* useState: filter
  toast,            \* useState: toast (NoValue = null)
  openProject,      \* useState: openProject (<<>> = null, <<p>> = project p)
  active,           \* useState inside useScrollSpy
  visibleProjects,  \* useMemo value
  timer,            \* ms left on the Toast's pending setTimeout, NoTimer if none
  sinceShow,        \* ms since the last setToast(message) call while a toast is up
  pending,          \* label -> number of clipboard writes in flight
  keyListeners,     \* number of keydown listeners registered on window by Modal
  view,             \* section -> intersection with the observation band
  obs,              \* IntersectionObserver registrations: target -> previous state
  ev                \* the last event handled: its name, its argument and, for a
                    \* timer expiry, the ms elapsed since the last show call

vars == << app, storageMode, localStorage, projects, accent, styleAccent,
           filter, toast, openProject, active, visibleProjects, timer,
           sinceShow, pending, keyListeners, view, obs, ev >>

\* everything but the event record
progVars == << app, storageMode, localStorage, projects, accent, styleAccent,
               filter, toast, openProject, active, visibleProjects, timer,
               sinceShow, pending, keyListeners, view, obs >>

\* no setTimeout pending
NoTimer == -1

\* a section that does not intersect the observation band
NotInt == -1

----------------------------------------------------------------------------
\* window.localStorage

GetItem(store, key) == store[key]

\* mutant: the write is lost
SetItemLost(store, key, value) == store

\* setItem stores the string under the key and leaves the other keys alone
SetItem(store, key, value) == [store EXCEPT ![key] = value]

\* mutant: a persisted value outside the palette is replaced by the default
LoadAccentValidated(store) ==
  IF store["accent"] \in PaletteValues THEN store["accent"] ELSE ACCENTS[1].value

\* the initial accent: window.localStorage.getItem("accent") || ACCENTS[0].value
LoadAccent(store) ==
  IF Truthy(GetItem(store, "accent")) THEN GetItem(store, "accent")
  ELSE ACCENTS[1].value

----------------------------------------------------------------------------
\* Project filter

Includes(seq, x) == \E i \in DOMAIN seq : seq[i] = x

RECURSIVE AddTags(_, _)
\* s.add(t) for every tag of every project, in order; a Set keeps first insertions
AddTags(acc, ts) ==
  IF ts = <<>> THEN acc
  ELSE AddTags(IF Includes(acc, Head(ts)) THEN acc ELSE Append(acc, Head(ts)),
               Tail(ts))

RECURSIVE CollectTags(_, _)
CollectTags(acc, ps) ==
  IF ps = <<>> THEN acc
  ELSE CollectTags(AddTags(acc, Head(ps).tags), Tail(ps))

\* const allTags = useMemo(...)
allTags(all) == <<"All">> \o CollectTags(<<>>, all)

\* mutant: only the first tag of a project is compared
HasFilterTagFirst(p, f) == p.tags # <<>> /\ p.tags[1] = f

HasFilterTag(p, f) == Includes(p.tags, f)

\* const visibleProjects = useMemo(...)
VisibleProjects(all, f) ==
  IF f = "All" THEN all
  ELSE SelectSeq(all, LAMBDA p : HasFilterTag(p, f))

----------------------------------------------------------------------------
\* Modal: the links offered for a project, in render order

\* mutant: every link the project has is offered
ModalActionsEveryLink(project) ==
  (IF Truthy(project.links.artstation) THEN <<"artstation">> ELSE <<>>)
  \o (IF Truthy(project.links.code) THEN <<"code">> ELSE <<>>)
  \o (IF Truthy(project.links.live) THEN <<"live">> ELSE <<>>)

ModalActions(project) ==
  IF Truthy(project.links.artstation) THEN <<"artstation">>
  ELSE (IF Truthy(project.links.code) THEN <<"code">> ELSE <<>>)
       \o (IF Truthy(project.links.live) THEN <<"live">> ELSE <<>>)

\* mutant: the effect returns no cleanup
ModalListenersNoCleanup(wasOpen, isOpen, n) == IF isOpen THEN n + 1 ELSE n

\* Modal's effect across a commit: the cleanup of the previous effect runs when
\* the Modal was mounted (onClose is a new function on every render of App, so
\* the effect always re-runs), then the effect runs when the Modal is mounted.
ModalListeners(wasOpen, isOpen, n) ==
  LET cleaned == IF wasOpen THEN n - 1 ELSE n
  IN  IF isOpen THEN cleaned + 1 ELSE cleaned

----------------------------------------------------------------------------
\* Toast: its effect across a commit.  clearTimeout in the cleanup of the
\* previous effect, setTimeout(onClose, 1800) in the new one.

ToastTimer(wasShown, isShown, t) ==
  LET cleared == IF wasShown THEN NoTimer ELSE t
  IN  IF isShown THEN DISMISS_MS ELSE cleared

\* mutant: the catch branch reports success
CopyToastAlwaysCopied(ok, label) == label \o " copied"

\* the message copy() passes to setToast
CopyToast(ok, label) == IF ok THEN label \o " copied" ELSE "Copy failed"

----------------------------------------------------------------------------
\* useScrollSpy and the IntersectionObserver it creates

SectionIndex(s) == CHOOSE i \in DOMAIN sections : sections[i] = s

\* intersection ratios (percent) a section may be measured at
RatioLevels == {5, 20, 40, 60}

\* sections start..start+k-1 overlap the band: the first with ratio rf, the last
\* with ratio rl, and any section between them lies wholly inside the band
ViewOf(start, k, rf, rl) ==
  [s \in SectionIds |->
     IF SectionIndex(s) < start \/ SectionIndex(s) >= start + k THEN NotInt
     ELSE IF SectionIndex(s) = start THEN rf
     ELSE IF SectionIndex(s) = start + k - 1 THEN rl
     ELSE 100]

\* the page is one column of sections in document order, so the sections that
\* overlap the band are consecutive
Views ==
  { ViewOf(start, k, rf, rl) :
      start \in DOMAIN sections, k \in 0..MaxVisible,
      rf \in RatioLevels, rl \in RatioLevels }

NoView == [s \in SectionIds |-> NotInt]

\* the IntersectionObserverEntry of target s
Entry(s, v) ==
  [id |-> s,
   isIntersecting |-> v[s] # NotInt,
   intersectionRatio |-> IF v[s] = NotInt THEN 0 ELSE v[s]]

\* index of the first threshold greater than the ratio
ThresholdIndex(r) == Cardinality({ i \in DOMAIN Thresholds : Thresholds[i] <= r })

\* els.forEach((el) => obs.observe(el)) on a new observer: no previous state
FreshObserver == [s \in SectionIds |-> [idx |-> -1, isInt |-> FALSE]]

\* what the observer remembers of a target after measuring it in view v
Measure(s, v) ==
  [idx |-> ThresholdIndex(Entry(s, v).intersectionRatio),
   isInt |-> Entry(s, v).isIntersecting]

Observed(o, v) == [s \in DOMAIN o |-> Measure(s, v)]

\* a target gets an entry when its threshold index or isIntersecting changed
Queued(o, v) ==
  SelectSeq(sections, LAMBDA s : s \in DOMAIN o /\ Measure(s, v) # o[s])

\* the batch handed to the callback, in observation order
Entries(o, v) ==
  LET q == Queued(o, v)
  IN  [i \in DOMAIN q |-> Entry(q[i], v)]

\* comparator (a, b) => b.intersectionRatio - a.intersectionRatio: a stays
\* before b unless b's ratio is strictly greater
ComesBefore(a, b) == a.intersectionRatio >= b.intersectionRatio

RECURSIVE InsertSorted(_, _)
InsertSorted(sorted, e) ==
  IF sorted = <<>> THEN <<e>>
  ELSE IF ComesBefore(Head(sorted), e)
       THEN <<Head(sorted)>> \o InsertSorted(Tail(sorted), e)
       ELSE <<e>> \o sorted

RECURSIVE SortByRatio(_)
\* Array.prototype.sort is stable
SortByRatio(es) ==
  IF es = <<>> THEN <<>>
  ELSE InsertSorted(SortByRatio(SubSeq(es, 1, Len(es) - 1)), es[Len(es)])

\* the observer callback: the id handed to setActive, or the current one
SpyCallback(entries, cur) ==
  LET v == SortByRatio(SelectSeq(entries, LAMBDA e : e.isIntersecting))
  IN  IF v # <<>> /\ Truthy(v[1].id) THEN v[1].id ELSE cur

----------------------------------------------------------------------------
\* React: commit of a new App state

AppState ==
  [accent |-> accent, filter |-> filter, toast |-> toast,
   openProject |-> openProject, active |-> active]

\* cleanups of every mounted effect; the component state is gone
Teardown ==
  /\ accent' = NoValue
  /\ filter' = "All"
  /\ toast' = NoValue
  /\ openProject' = <<>>
  /\ active' = NoValue
  /\ visibleProjects' = <<>>
  /\ timer' = ToastTimer(Truthy(toast), FALSE, timer)
  /\ keyListeners' = ModalListeners(openProject # <<>>, FALSE, keyListeners)
  /\ obs' = <<>>

\* A handler asked for state n; o is the observer's state when it returns.
\* Equal state: React bails out, nothing renders and no effect runs.
\* Otherwise App renders: `sections` and both onClose closures are new objects,
\* so the scroll-spy, Toast and Modal effects re-run; the accent effect and the
\* filter memo re-run when their dependency changed.  An exception thrown by
\* an effect is uncaught and unmounts the tree.
Commit(n, o) ==
  IF n = AppState THEN
    /\ obs' = o
    /\ UNCHANGED << app, localStorage, accent, styleAccent, filter, toast,
                    openProject, active, visibleProjects, timer, keyListeners >>
  ELSE IF n.accent # accent /\ storageMode = "setThrows" THEN
    /\ app' = "crashed"
    /\ styleAccent' = n.accent
    /\ Teardown
    /\ UNCHANGED localStorage
  ELSE
    /\ accent' = n.accent
    /\ filter' = n.filter
    /\ toast' = n.toast
    /\ openProject' = n.openProject
    /\ active' = n.active
    /\ obs' = FreshObserver
    /\ styleAccent' = IF n.accent # accent THEN n.accent ELSE styleAccent
    /\ localStorage' = IF n.accent # accent
                       THEN SetItem(localStorage, "accent", n.accent)
                       ELSE localStorage
    /\ visibleProjects' = IF n.filter # filter
                          THEN VisibleProjects(projects, n.filter)
                          ELSE visibleProjects
    /\ timer' = ToastTimer(Truthy(toast), Truthy(n.toast), timer)
    /\ keyListeners' = ModalListeners(openProject # <<>>, n.openProject # <<>>,
                                      keyListeners)
    /\ UNCHANGED app

----------------------------------------------------------------------------
\* Initial states: the page is not rendered yet

\* what earlier visits, other scripts of the origin or the user may have stored
PersistedValues == {NoValue, "", "#000000"} \cup PaletteValues

NoCopies == [l \in CopyLabels |-> 0]

InitPage ==
  /\ app = "unmounted"
  /\ accent = NoValue
  /\ styleAccent = NoValue
  /\ filter = "All"
  /\ toast = NoValue
  /\ openProject = <<>>
  /\ active = NoValue
  /\ visibleProjects = <<>>
  /\ timer = NoTimer
  /\ sinceShow = 0
  /\ pending = NoCopies
  /\ keyListeners = 0
  /\ view = NoView
  /\ obs = <<>>
  /\ ev = [op |-> "init", arg |-> "", at |-> 0]

Init ==
  /\ InitPage
  /\ storageMode \in {"ok", "getThrows", "setThrows"}
  /\ localStorage \in [{"accent"} -> PersistedValues]
  /\ projects = PROJECTS

----------------------------------------------------------------------------
\* Actions

\* first render of App and its mount effects
Mount ==
  /\ app = "unmounted"
  /\ ev' = [op |-> "mount", arg |-> GetItem(localStorage, "accent"), at |-> 0]
  /\ UNCHANGED << storageMode, projects, sinceShow, pending, view >>
  /\ IF storageMode = "getThrows" THEN
       \* the useState initialiser throws during render
       /\ app' = "crashed"
       /\ UNCHANGED << localStorage, accent, styleAccent, filter, toast,
                       openProject, active, visibleProjects, timer,
                       keyListeners, obs >>
     ELSE IF storageMode = "setThrows" THEN
       \* setProperty, then setItem throws inside the accent effect
       /\ app' = "crashed"
       /\ styleAccent' = LoadAccent(localStorage)
       /\ Teardown
       /\ UNCHANGED localStorage
     ELSE
       /\ app' = "mounted"
       /\ accent' = LoadAccent(localStorage)
       /\ filter' = "All"
       /\ toast' = NoValue
       /\ openProject' = <<>>
       /\ active' = sections[1]
       /\ visibleProjects' = VisibleProjects(projects, "All")
       /\ obs' = FreshObserver
       /\ styleAccent' = LoadAccent(localStorage)
       /\ localStorage' = SetItem(localStorage, "accent", LoadAccent(localStorage))
       /\ timer' = ToastTimer(FALSE, FALSE, timer)
       /\ keyListeners' = ModalListeners(FALSE, FALSE, keyListeners)

\* the page is unloaded (and may be loaded again: a reload)
Unmount ==
  /\ app = "mounted"
  /\ app' = "unmounted"
  /\ Teardown
  /\ sinceShow' = 0
  /\ pending' = NoCopies
  /\ ev' = [op |-> "unmount", arg |-> "", at |-> 0]
  /\ UNCHANGED << storageMode, localStorage, projects, styleAccent, view >>

\* onClick={() => setAccent(c.value)}
SelectAccent(a) ==
  /\ app = "mounted"
  /\ Commit([AppState EXCEPT !.accent = a], obs)
  /\ ev' = [op |-> "accent", arg |-> a, at |-> 0]
  /\ UNCHANGED << storageMode, projects, sinceShow, pending, view >>

\* onClick={() => setFilter(t)}
SetFilter(t) ==
  /\ app = "mounted"
  /\ Commit([AppState EXCEPT !.filter = t], obs)
  /\ ev' = [op |-> "filter", arg |-> t, at |-> 0]
  /\ UNCHANGED << storageMode, projects, sinceShow, pending, view >>

\* onClick={() => setOpenProject(p)} on a project card
OpenProject(p) ==
  /\ app = "mounted"
  /\ Commit([AppState EXCEPT !.openProject = <<p>>], obs)
  /\ ev' = [op |-> "open", arg |-> p.title, at |-> 0]
  /\ UNCHANGED << storageMode, projects, sinceShow, pending, view >>

\* the Modal's backdrop or its close button: onClose
CloseModal ==
  /\ app = "mounted"
  /\ openProject # <<>>
  /\ Commit([AppState EXCEPT !.openProject = <<>>], obs)
  /\ ev' = [op |-> "closeModal", arg |-> "", at |-> 0]
  /\ UNCHANGED << storageMode, projects, sinceShow, pending, view >>

\* a keydown event on window: every registered onKey runs
KeyDown(k) ==
  /\ app = "mounted"
  /\ Commit(IF keyListeners > 0 /\ k = "Escape"
            THEN [AppState EXCEPT !.openProject = <<>>]
            ELSE AppState, obs)
  /\ ev' = [op |-> "keydown", arg |-> k, at |-> 0]
  /\ UNCHANGED << storageMode, projects, sinceShow, pending, view >>

\* setToast(m) with a message
Show(m) ==
  /\ Commit([AppState EXCEPT !.toast = m], obs)
  /\ sinceShow' = 0

\* the contact form's onSubmit
SubmitForm ==
  /\ app = "mounted"
  /\ Show("Message sent")
  /\ ev' = [op |-> "show", arg |-> "Message sent", at |-> 0]
  /\ UNCHANGED << storageMode, projects, pending, view >>

\* copy(): navigator.clipboard.writeText returns a promise that is pending
CopyClick(label) ==
  /\ app = "mounted"
  /\ pending[label] < MaxPending
  /\ pending' = [pending EXCEPT ![label] = @ + 1]
  /\ Commit(AppState, obs)
  /\ ev' = [op |-> "copy", arg |-> label, at |-> 0]
  /\ UNCHANGED << storageMode, projects, sinceShow, view >>

\* copy(): navigator.clipboard is missing, writeText throws inside the try
CopyUnavailable(label) ==
  /\ app = "mounted"
  /\ Show(CopyToast(FALSE, label))
  /\ ev' = [op |-> "copyUnavailable", arg |-> label, at |-> 0]
  /\ UNCHANGED << storageMode, projects, pending, view >>

\* copy() resumes after the await: the write resolved (ok) or was rejected
CopySettle(label, ok) ==
  /\ app = "mounted"
  /\ pending[label] > 0
  /\ pending' = [pending EXCEPT ![label] = @ - 1]
  /\ Show(CopyToast(ok, label))
  /\ ev' = [op |-> IF ok THEN "copyResolved" ELSE "copyRejected",
            arg |-> label, at |-> 0]
  /\ UNCHANGED << storageMode, projects, view >>

\* the Toast's close button: onClose
ToastClose ==
  /\ app = "mounted"
  /\ Truthy(toast)
  /\ Commit([AppState EXCEPT !.toast = NoValue], obs)
  /\ sinceShow' = 0
  /\ ev' = [op |-> "toastClose", arg |-> "", at |-> 0]
  /\ UNCHANGED << storageMode, projects, pending, view >>

\* the pending setTimeout expires: onClose
Timeout ==
  /\ app = "mounted"
  /\ timer = 0
  /\ Commit([AppState EXCEPT !.toast = NoValue], obs)
  /\ sinceShow' = 0
  /\ ev' = [op |-> "timeout", arg |-> toast, at |-> sinceShow]
  /\ UNCHANGED << storageMode, projects, pending, view >>

\* time passes while a timer is pending; an expired timer fires first
Tick ==
  /\ app = "mounted"
  /\ timer # NoTimer
  /\ timer > 0
  /\ timer' = IF timer > Step THEN timer - Step ELSE 0
  /\ sinceShow' = Min(sinceShow + Step, ElapsedCap)
  /\ ev' = [op |-> "tick", arg |-> "", at |-> 0]
  /\ UNCHANGED << app, storageMode, localStorage, projects, accent, styleAccent,
                  filter, toast, openProject, active, visibleProjects, pending,
                  keyListeners, view, obs >>

\* a rendering update measures the sections at geometry nv and the observer
\* delivers the queued entries to its callback
IntersectionCallback(nv) ==
  LET entries == Entries(obs, nv)
  IN  /\ app = "mounted"
      /\ entries # <<>>
      /\ view' = nv
      /\ Commit([AppState EXCEPT !.active = SpyCallback(entries, active)],
                Observed(obs, nv))
      /\ ev' = [op |-> "intersect",
                arg |-> IF obs = FreshObserver THEN "first" ELSE "change",
                at |-> 0]
      /\ UNCHANGED << storageMode, projects, sinceShow, pending >>

----------------------------------------------------------------------------
\* Specifications

FilterTags == { allTags(projects)[i] : i \in DOMAIN allTags(projects) }

Cards == { visibleProjects[i] : i \in DOMAIN visibleProjects }

\* the page without scrolling
Next ==
  \/ Mount
  \/ Unmount
  \/ \E a \in PaletteValues : SelectAccent(a)
  \/ \E t \in FilterTags : SetFilter(t)
  \/ \E p \in Cards : OpenProject(p)
  \/ CloseModal
  \/ \E k \in Keys : KeyDown(k)
  \/ SubmitForm
  \/ \E l \in CopyLabels : CopyClick(l)
  \/ \E l \in CopyLabels : CopyUnavailable(l)
  \/ \E l \in CopyLabels, ok \in BOOLEAN : CopySettle(l, ok)
  \/ ToastClose
  \/ Timeout
  \/ Tick

Spec == Init /\ [][Next]_vars

\* scrolling, with the contact form's toast as the other source of re-renders
InitSpy ==
  /\ InitPage
  /\ storageMode = "ok"
  /\ localStorage = [k \in {"accent"} |-> NoValue]
  /\ projects = PROJECTS

NextSpy ==
  \/ Mount
  \/ Unmount
  \/ \E nv \in Views : IntersectionCallback(nv)
  \/ SubmitForm
  \/ ToastClose

SpecSpy == InitSpy /\ [][NextSpy]_vars

----------------------------------------------------------------------------
\* Project lists other than PROJECTS, for the filter and the modal's link policy

GenTags == { <<>>, <<"x">>, <<"y", "x">> }

GenLinks ==
  [artstation : {NoValue, "https://example.org/gallery"},
   code : {NoValue, "https://example.org/code"},
   live : {NoValue, "https://example.org/live"}]

GenLists ==
  UNION { { [i \in 1..n |-> [title |-> "P" \o ToString(i),
                             tags |-> ts[i],
                             links |-> ls[i]]] :
              ts \in [1..n -> GenTags], ls \in [1..n -> GenLinks] } :
          n \in 0..MaxProjects }

InitPure ==
  /\ InitPage
  /\ storageMode = "ok"
  /\ localStorage = [k \in {"accent"} |-> NoValue]
  /\ projects \in GenLists

NextPure ==
  \/ Mount
  \/ \E t \in FilterTags : SetFilter(t)
  \/ \E p \in Cards : OpenProject(p)
  \/ CloseModal

SpecPure == InitPure /\ [][NextPure]_vars

----------------------------------------------------------------------------
\* Properties

Default == ACCENTS[1].value

Persisted == GetItem(localStorage, "accent")

Range(seq) == { seq[i] : i \in DOMAIN seq }

Intersecting(v) == { s \in SectionIds : v[s] # NotInt }

\* the ids of the entries a callback step delivers: the targets whose
\* measurement in the new view differs from what the observer remembered
BatchIds == { s \in DOMAIN obs : Measure(s, view') # obs[s] }

\* id is an intersecting entry of greatest ratio among the ids I of view v,
\* the first such in observation order
TopOf(id, I, v) ==
  /\ id \in I
  /\ \A s \in I : v[s] <= v[id]
  /\ \A s \in I : v[s] = v[id] => SectionIndex(id) <= SectionIndex(s)

\* C1: the active id is always one of the sections; after every
\* batch it is a section of greatest intersection ratio among all the sections
\* that intersect the viewport then, and it is unchanged when none does.
C1_ActiveIsTopOfViewport ==
  /\ [](app = "mounted" => active \in SectionIds)
  /\ [][ev'.op = "intersect" =>
          IF Intersecting(view') = {} THEN active' = active
          ELSE /\ active' \in Intersecting(view')
               /\ \A s \in SectionIds : view'[s] <= view'[active']]_vars

\* What the callback computes instead (C1 relative to the batch): after every
\* batch the active id is the first entry of greatest intersection ratio among
\* the intersecting entries of that batch, and it is unchanged when the batch
\* has none.
BatchTopIsActive ==
  /\ [](app = "mounted" => active \in SectionIds)
  /\ [][ev'.op = "intersect" =>
          IF BatchIds \cap Intersecting(view') = {} THEN active' = active
          ELSE TopOf(active', BatchIds \cap Intersecting(view'), view')]_vars

ShownMessage(e) ==
  IF e.op = "show" THEN e.arg
  ELSE IF e.op = "copyResolved" THEN e.arg \o " copied"
  ELSE "Copy failed"

ShowOps == {"show", "copyResolved", "copyRejected", "copyUnavailable"}

\* C2: a show(message) call made while a toast is visible and its timer has
\* not expired leaves the new message visible and the timer restarted at the
\* full dismissal period, so every expiry comes exactly one period after the
\* latest show call.
C2_ShowRestartsTimer ==
  /\ [][(ev'.op \in ShowOps /\ Truthy(toast) /\ timer > 0) =>
          (toast' = ShownMessage(ev') /\ timer' = DISMISS_MS)]_vars
  /\ [](ev.op = "timeout" => ev.at = DISMISS_MS)

\* C3: a keydown listener is registered exactly while a modal is open, never
\* more than one; Escape with a modal open clears the open project, Escape
\* with no modal open changes nothing.
C3_EscapeListener ==
  /\ [](keyListeners = IF app = "mounted" /\ openProject # <<>> THEN 1 ELSE 0)
  /\ [][(ev'.op = "keydown" /\ ev'.arg = "Escape") =>
          IF openProject # <<>>
          THEN openProject' = <<>> /\ keyListeners' = 0 /\ app' = "mounted"
          ELSE UNCHANGED progVars]_vars

\* a re-render of App while the modal is open left exactly one listener
C3_Witness ==
  /\ ev.op = "accent"
  /\ openProject # <<>>
  /\ keyListeners = 1
  /\ accent # Default

\* C4: with storage unavailable the first render does not crash: the accent
\* is the palette default when the read fails, the failed write changes
\* nothing, and the page is up.
C4_StorageFailureContained ==
  (ev.op = "mount" /\ storageMode # "ok") =>
    /\ app = "mounted"
    /\ storageMode = "getThrows" => accent = Default
    /\ Persisted = ev.arg

\* C5: a pending dismissal timer exists only while a toast is visible, and no
\* expiry acts on a toast shown after the expiring timer was started: at an
\* expiry at least one full period has passed since the last show call.
C5_TimerNeverStale ==
  /\ timer # NoTimer => Truthy(toast)
  /\ ev.op = "timeout" => ev.at >= DISMISS_MS

\* C6: a copy whose clipboard write is rejected, or whose clipboard is
\* missing, leaves the toast at exactly "Copy failed" with the page up; a copy
\* whose write succeeds leaves it at "<label> copied".
C6_CopyToast ==
  /\ ev.op \in {"copyRejected", "copyUnavailable"} =>
       app = "mounted" /\ toast = "Copy failed"
  /\ ev.op = "copyResolved" =>
       /\ app = "mounted"
       /\ toast = ev.arg \o " copied"
       /\ ev.arg = "Email" => toast = "Email copied"

C6_Witness == ev.op = "copyRejected" /\ toast = "Copy failed" /\ timer = DISMISS_MS

\* C7: after selecting palette value a, the key "accent" holds a and a load
\* returns a; whenever the page is up a load returns the current accent, so a
\* reload after any sequence of selections loads the last one selected.
C7_AccentRoundTrip ==
  /\ ev.op = "accent" =>
       Persisted = ev.arg /\ LoadAccent(localStorage) = ev.arg /\ accent = ev.arg
  /\ app = "mounted" => LoadAccent(localStorage) = accent

\* a selection of a non-default palette value reached storage and the style
C7_Witness ==
  /\ ev.op = "accent"
  /\ ev.arg = ACCENTS[3].value
  /\ Persisted = ACCENTS[3].value
  /\ styleAccent = ACCENTS[3].value

\* C8 as claimed: load returns the persisted string as it is whenever one is
\* persisted, and falls back to the first palette entry only when nothing is
\* persisted.
C8_LoadPassThrough ==
  (ev.op = "mount" /\ app = "mounted") =>
    /\ ev.arg # NoValue => accent = ev.arg
    /\ ev.arg = NoValue => accent = Default
    /\ (accent = Default /\ ev.arg # Default) => ev.arg = NoValue

\* C8 amended: load returns the persisted string as it is whenever a
\* non-empty string is persisted, palette value or not, and returns the first
\* palette entry when nothing or the empty string is persisted.
C8_LoadNonEmpty ==
  (ev.op = "mount" /\ app = "mounted") =>
    IF ev.arg \in {NoValue, ""} THEN accent = Default ELSE accent = ev.arg

\* a persisted value outside the palette was loaded
C8_Witness ==
  /\ ev.op = "mount"
  /\ ev.arg = "#000000"
  /\ accent = "#000000"
  /\ ev.arg \notin PaletteValues

HasLink(p, kind) == p.links[kind] # NoValue

\* C9: for the open project the modal offers only the gallery link when the
\* project has one; otherwise the code link, then the live link, each only
\* when the project has it.
C9_ModalActions ==
  openProject # <<>> =>
    LET p == openProject[1]
        acts == ModalActions(p)
    IN  IF HasLink(p, "artstation") THEN acts = <<"artstation">>
        ELSE /\ Range(acts) = { k \in {"code", "live"} : HasLink(p, k) }
             /\ Len(acts) = Cardinality(Range(acts))
             /\ Len(acts) = 2 => acts[1] = "code"

\* a project with gallery, code and live links is open
C9_Witness ==
  /\ openProject # <<>>
  /\ HasLink(openProject[1], "artstation")
  /\ HasLink(openProject[1], "code")
  /\ HasLink(openProject[1], "live")
  /\ ModalActions(openProject[1]) = <<"artstation">>

\* sub is the subsequence of all made of the elements at the positions in keep
IsSubseqAt(sub, all, keep) ==
  \E f \in [DOMAIN sub -> DOMAIN all] :
    /\ \A i, j \in DOMAIN sub : i < j => f[i] < f[j]
    /\ { f[i] : i \in DOMAIN sub } = keep
    /\ \A i \in DOMAIN sub : sub[i] = all[f[i]]

\* C10: the visible projects are the whole list, in order, under "All", and
\* under a tag of the vocabulary exactly the projects carrying that tag, in
\* their original order, none added, dropped or repeated.
C10_VisibleProjects ==
  app = "mounted" =>
    /\ filter \in FilterTags
    /\ IF filter = "All" THEN visibleProjects = projects
       ELSE IsSubseqAt(visibleProjects, projects,
                       { i \in DOMAIN projects : filter \in Range(projects[i].tags) })

\* a tag filter that kept some projects and dropped others
C10_Witness ==
  /\ ev.op = "filter"
  /\ filter # "All"
  /\ visibleProjects # <<>>
  /\ Len(visibleProjects) < Len(projects)

====
